---- MODULE Spec2Model ----
(***************************************************************************)
(* Repository Biome (React component App): the growth animation, the       *)
(* perpetual particle loop, the three particle collections and the         *)
(* repository switch handlers, as a state machine.                         *)
(*                                                                         *)
(* Host semantics assumed (React 18 with createRoot, a browser event loop):*)
(*  - state updates made in a click/submit handler are rendered, committed *)
(*    and their passive effects flushed before the handler's task ends;    *)
(*  - state updates made elsewhere (after an await, in a frame callback,   *)
(*    in an effect) are rendered in a later task (Render) and their        *)
(*    passive effects run in a still later task (FlushPassiveEffects);     *)
(*  - passive effects that are still due are flushed before any render;    *)
(*  - requestAnimationFrame callbacks run in registration order, all the   *)
(*    callbacks registered before a frame run in that frame;               *)
(*  - <React.StrictMode> in a development build runs the mount effects,    *)
(*    their cleanups, and the mount effects again.                         *)
(*                                                                         *)
(* Time is counted in units of 100 ms.  A particle's life is counted in    *)
(* quanta: life = 1 is ParticleLife / FireflyLife / LeafLife quanta and     *)
(* the per-update decay is a whole number of quanta.                       *)
(***************************************************************************)
EXTENDS Integers, Sequences, FiniteSets, TLC

\* ---------------------------------------------------------------- bounds
MaxTime == 30          \* horizon of the clock, in 100 ms units
FrameStep == 10        \* time between two animation frames, in 100 ms units
ShortFrame == 8        \* the other gap between two frames explored for App.jsx
MaxEmit == 1           \* ambient particles one drawTree may emit
ParticleLife == 2      \* quanta of an ambient particle's life = 1
FireflyLife == 2       \* quanta of a firefly's life = 1
LeafLife == 2          \* quanta of a falling leaf's life = 1

\* ------------------------------------------------------ program constants
duration == 2000       \* ms, growth animation
D == duration \div 100 \* the same in time units
One == D * D * D       \* growth progress 1.0 (progress is kept in 1/D^3)

Idle == "idle"

\* ------------------------------------------------------------ repositories
\* days: whole days since lastPush when the page is open (MOCK_REPOS dated
\* as of 2024-02-01); stars as in the record.
MOCK_REPOS ==
    << [fullName |-> "facebook/react", days |-> 17, stars |-> 218000,
        forks |-> 45800, isCustom |-> FALSE],
       [fullName |-> "tensorflow/tensorflow", days |-> 4, stars |-> 180000,
        forks |-> 89000, isCustom |-> FALSE],
       [fullName |-> "torvalds/linux", days |-> 3, stars |-> 165000,
        forks |-> 52000, isCustom |-> FALSE],
       [fullName |-> "user/abandoned-repo", days |-> 1331, stars |-> 45,
        forks |-> 12, isCustom |-> FALSE] >>

\* The records fetchGitHubRepo can return in this model (isCustom: true).
FetchResults ==
    { [fullName |-> "octo/small", days |-> 400, stars |-> 3, forks |-> 0,
       isCustom |-> TRUE] }

\* --------------------------------------------------------- pure functions
\* calculateHealth with daysSinceLastPush = elapsed / perDay (the code divides
\* milliseconds by 1000 * 60 * 60 * 24); the result in tenths.
\* Variant with the boundary days in the upper tier.
calculateHealthInclusive(elapsed, perDay) ==
    IF elapsed <= 30 * perDay THEN 10
    ELSE IF elapsed <= 90 * perDay THEN 8
    ELSE IF elapsed <= 180 * perDay THEN 6
    ELSE IF elapsed <= 365 * perDay THEN 4
    ELSE 2
calculateHealthAt(elapsed, perDay) ==
    IF elapsed < 30 * perDay THEN 10
    ELSE IF elapsed < 90 * perDay THEN 8
    ELSE IF elapsed < 180 * perDay THEN 6
    ELSE IF elapsed < 365 * perDay THEN 4
    ELSE 2
calculateHealth(days) == calculateHealthAt(days, 1)

\* ceil(10^(k/3)) for k = 0..15: floor(log10(s)*3) >= k  iff  s >= Pow10Third[k+1]
Pow10Third == << 1, 3, 5, 10, 22, 47, 100, 216, 465, 1000, 2155, 4642, 10000, 21545, 46416, 100000 >>

\* Math.min(15, Math.floor(Math.log10(stars) * 3)), for stars >= 1
maxFirefliesFor(stars) ==
    Cardinality({k \in 1..Len(Pow10Third) : Pow10Third[k] <= stars}) - 1

\* Math.floor((1 - health) * 8), health in tenths
maxLeavesFor(health) == ((10 - health) * 8) \div 10

\* 1 - Math.pow(1 - Math.min(1, elapsed / duration), 3), in 1/D^3
Min(a, b) == IF a < b THEN a ELSE b
easedProgress(elapsed) ==
    LET e == Min(D, elapsed) IN One - (D - e) * (D - e) * (D - e)

\* progress > 0.8, progress > 0
Over08(p) == p * 10 > 8 * One

\* ------------------------------------------------------------------ state
VARIABLES
    now,                      \* Date.now() / performance.now(), 100 ms units
    mounted,                  \* "init" (constructed), "mounted", "unmounted"
    strictMode,               \* the build wraps App in <React.StrictMode>
    repoData, isAnimating, customRepos, isLoading, error,   \* useState
    pending,                  \* state updates enqueued and not yet rendered
    effectsDue,               \* passive effects committed and not yet run
    growthCleanup, loopCleanup, \* the effect's last run returned a cleanup
    resizeListener,           \* window 'resize' listener registered
    particlesRef, firefliesRef, fallingLeavesRef,
    animationTimeRef, lastFrameTimeRef,
    growthProgressRef, lastRenderedProgressRef,
    animationRef, particleAnimationRef,
    canvasRef, offscreenCanvasRef,
    offscreen,                \* what the offscreen canvas holds
    rafQueue,                 \* requestAnimationFrame callbacks pending
    storage,                  \* localStorage 'customRepos': <<>> or <<list>>
    fetch,                    \* handleLoadCustomRepo awaiting fetchGitHubRepo
    lastFrame,                \* history: the last animateParticles call
    lastOp,                   \* history: the last operation
    switchTime,               \* history: time of the last repository switch
    variant,                  \* the component that runs: part_000 or App.jsx
    call                      \* the call of a renderer function under study

vars == << now, mounted, strictMode, repoData, isAnimating, customRepos,
           isLoading, error, pending, effectsDue, growthCleanup, loopCleanup,
           resizeListener, particlesRef, firefliesRef, fallingLeavesRef,
           animationTimeRef, lastFrameTimeRef, growthProgressRef,
           lastRenderedProgressRef, animationRef, particleAnimationRef,
           canvasRef, offscreenCanvasRef, offscreen,
           rafQueue, storage, fetch, lastFrame, lastOp, switchTime, variant,
           call >>

\* The state as one record, so that the code's statements compose in order.
\* running: the callbacks of the animation frame in progress; rolled: the
\* random draws the operation in progress has consumed.
St == [ now |-> now, mounted |-> mounted, strictMode |-> strictMode,
        repoData |-> repoData, isAnimating |-> isAnimating,
        customRepos |-> customRepos, isLoading |-> isLoading, error |-> error,
        pending |-> pending, effectsDue |-> effectsDue,
        growthCleanup |-> growthCleanup, loopCleanup |-> loopCleanup,
        resizeListener |-> resizeListener,
        particlesRef |-> particlesRef, firefliesRef |-> firefliesRef,
        fallingLeavesRef |-> fallingLeavesRef,
        animationTimeRef |-> animationTimeRef,
        lastFrameTimeRef |-> lastFrameTimeRef,
        growthProgressRef |-> growthProgressRef,
        lastRenderedProgressRef |-> lastRenderedProgressRef,
        animationRef |-> animationRef,
        particleAnimationRef |-> particleAnimationRef,
        canvasRef |-> canvasRef, offscreenCanvasRef |-> offscreenCanvasRef,
        offscreen |-> offscreen,
        rafQueue |-> rafQueue, storage |-> storage, fetch |-> fetch,
        lastFrame |-> lastFrame, lastOp |-> lastOp, switchTime |-> switchTime,
        variant |-> variant,
        running |-> << >>, rolled |-> {} ]

Apply(s) ==
    /\ now' = s.now /\ mounted' = s.mounted /\ strictMode' = s.strictMode
    /\ repoData' = s.repoData /\ isAnimating' = s.isAnimating
    /\ customRepos' = s.customRepos /\ isLoading' = s.isLoading
    /\ error' = s.error /\ pending' = s.pending /\ effectsDue' = s.effectsDue
    /\ growthCleanup' = s.growthCleanup /\ loopCleanup' = s.loopCleanup
    /\ resizeListener' = s.resizeListener
    /\ particlesRef' = s.particlesRef /\ firefliesRef' = s.firefliesRef
    /\ fallingLeavesRef' = s.fallingLeavesRef
    /\ animationTimeRef' = s.animationTimeRef
    /\ lastFrameTimeRef' = s.lastFrameTimeRef
    /\ growthProgressRef' = s.growthProgressRef
    /\ lastRenderedProgressRef' = s.lastRenderedProgressRef
    /\ animationRef' = s.animationRef
    /\ particleAnimationRef' = s.particleAnimationRef
    /\ canvasRef' = s.canvasRef /\ offscreenCanvasRef' = s.offscreenCanvasRef
    /\ offscreen' = s.offscreen /\ rafQueue' = s.rafQueue
    /\ storage' = s.storage /\ fetch' = s.fetch
    /\ lastFrame' = s.lastFrame /\ lastOp' = s.lastOp
    /\ switchTime' = s.switchTime
    /\ variant' = s.variant
    /\ call' = call

NoPending == [ repoData |-> << >>, isAnimating |-> << >>, customRepos |-> << >>,
               isLoading |-> << >>, error |-> << >> ]
NoFetch == [ st |-> Idle, result |-> "", customRepos |-> << >> ]
Blank == [ repo |-> "", progress |-> -1, time |-> 0, resized |-> FALSE ]
\* The offscreen canvas cleared by a resize and not drawn since.
Resized == [ Blank EXCEPT !.resized = TRUE ]
NoFrame == [ repo |-> "", active |-> "", progress |-> 0, steps |-> << >>,
             emitted |-> 0, removed |-> << >>, drawn |-> << >>,
             fireflies |-> 0, leaves |-> 0, scheduled |-> 0, tree |-> Blank,
             first |-> FALSE, clock |-> 0, roots |-> FALSE,
             invalidated |-> FALSE ]

\* The state an operation starts from: the history variables lastFrame and
\* lastOp describe the last operation only.
Begin == [St EXCEPT !.lastFrame = NoFrame, !.lastOp = ""]

\* A record that only localStorage can hold: saved by an earlier session.
StoredRepos ==
    { [fullName |-> "octo/old", days |-> 200, stars |-> 7, forks |-> 2,
       isCustom |-> TRUE] }

AllRepos == { MOCK_REPOS[i] : i \in 1..Len(MOCK_REPOS) } \cup FetchResults \cup StoredRepos
Repo(key) == CHOOSE r \in AllRepos : r.fullName = key

\* The repository the user has made active: the last setRepoData.
ActiveRepo(s) == IF s.pending.repoData # << >> THEN s.pending.repoData[1] ELSE s.repoData

\* No renderer function is under study.
NoCall == [ fn |-> "", arg |-> << >>, out |-> << >> ]

\* The component as constructed, before its first commit.
Constructed ==
    /\ now = 0
    /\ mounted = "init"
    /\ strictMode \in BOOLEAN
    /\ repoData = MOCK_REPOS[1].fullName
    /\ isAnimating = FALSE
    /\ customRepos = << >>
    /\ isLoading = FALSE
    /\ error = ""
    /\ pending = NoPending
    /\ effectsDue = {}
    /\ growthCleanup = FALSE /\ loopCleanup = FALSE /\ resizeListener = FALSE
    /\ particlesRef = << >> /\ firefliesRef = << >> /\ fallingLeavesRef = << >>
    /\ animationTimeRef = 0
    /\ lastFrameTimeRef = 0
    /\ growthProgressRef = 0
    /\ lastRenderedProgressRef = -1
    /\ animationRef = 0 /\ particleAnimationRef = 0
    /\ canvasRef = FALSE /\ offscreenCanvasRef = FALSE
    /\ offscreen = Blank
    /\ rafQueue = << >>
    /\ fetch = NoFetch
    /\ lastFrame = NoFrame
    /\ lastOp = ""
    /\ switchTime = -1
    /\ call = NoCall

\* src/unnamed/part_000 is the component of Spec, src/src/App.jsx the one of
\* AppJsxSpec.
Part000 == "part_000"
AppJsx == "App.jsx"

Init ==
    /\ Constructed
    /\ variant = Part000
    /\ storage \in { << >>, << << "octo/small" >> >> }

\* App.jsx keeps nothing in localStorage.
AppJsxInit ==
    /\ Constructed
    /\ variant = AppJsx
    /\ storage = << >>

\* A session that finds repositories saved by an earlier one.
CustomInit ==
    /\ Constructed
    /\ ~strictMode
    /\ variant = Part000
    /\ storage = << << "octo/old" >> >>

\* ------------------------------------------------ requestAnimationFrame
\* A callback: [id, kind, repo, startTime]; repo and startTime are what the
\* closure captured (repoData for animateParticles, startTime for animate).
IdsOf(q) == { q[i].id : i \in 1..Len(q) }

\* Ids only matter for cancellation, and each kind of callback keeps its id
\* in a ref of its own that every requestAnimationFrame overwrites: the next
\* id is the least one of its kind (odd for animate, even for
\* animateParticles) that no pending callback has.
FreshId(s, kind) ==
    LET used == IdsOf(s.rafQueue) \cup IdsOf(s.running)
        ids == { 2 * n - (IF kind = "animate" THEN 1 ELSE 0) :
                    n \in 1..(Cardinality(used) + 1) }
    IN  CHOOSE i \in ids : i \notin used /\ \A j \in ids : j < i => j \in used

requestAnimationFrame(s, cb) == [s EXCEPT !.rafQueue = Append(@, cb)]

\* if (ref.current) cancelAnimationFrame(ref.current)
cancelAnimationFrame(s, id) ==
    IF id = 0 THEN s
    ELSE [s EXCEPT !.rafQueue = SelectSeq(@, LAMBDA c : c.id # id),
                   !.running = SelectSeq(@, LAMBDA c : c.id # id)]

\* -------------------------------------------------------------- particles
\* age: update() calls so far; falses: update() calls that returned false.
NewParticle(kind, life, decay, src) ==
    [ kind |-> kind, life |-> life, decay |-> decay, src |-> src,
      age |-> 0, falses |-> 0 ]

\* update(): this.life -= this.decay; return this.life > 0
update(p) ==
    LET l == p.life - p.decay
    IN  [p EXCEPT !.life = l, !.age = @ + 1,
                  !.falses = IF l > 0 THEN @ ELSE @ + 1]
Alive(p) == p.life > 0

updateAll(q) == [ i \in 1..Len(q) |-> update(q[i]) ]

\* ref.current = ref.current.filter(p => p.update())
\* Variant of the filter that keeps what update() rejected.
filterUpdateKeepAll(q) == updateAll(q)
filterUpdate(q) == SelectSeq(updateAll(q), Alive)
removedBy(q) == SelectSeq(updateAll(q), LAMBDA p : ~Alive(p))

Log(s, step) == [s EXCEPT !.lastFrame.steps = Append(@, step)]

\* drawTree into the offscreen canvas: the buffer then holds the tree of
\* data at progress and animationTime; drawBranch runs only if progress > 0
\* and then pushes the emitted ambient particles (emit of them) into the
\* particles array it was handed; drawRoots is called if progress > 0.3 and
\* forks > 10.
drawTree(s, data, progress, animationTime, emit) ==
    LET n == IF progress > 0 THEN emit ELSE 0
        fresh == [ i \in 1..n |-> NewParticle("particle", ParticleLife, 1, data) ]
    IN  Log([s EXCEPT !.rolled = IF progress > 0 THEN @ \cup {"emit"} ELSE @,
                      !.offscreen = [ repo |-> data, progress |-> progress,
                                      time |-> animationTime,
                                      resized |-> FALSE ],
                      !.particlesRef = @ \o fresh,
                      !.lastFrame.emitted = n,
                      !.lastFrame.roots = progress * 10 > 3 * One
                                          /\ Repo(data).forks > 10], "drawTree")

\* renderFrame: copy the offscreen tree, then draw every particle, firefly
\* and falling leaf.
renderFrame(s) ==
    IF ~s.canvasRef \/ ~s.offscreenCanvasRef THEN s
    ELSE LET all == s.particlesRef \o s.firefliesRef \o s.fallingLeavesRef
         IN  Log([s EXCEPT !.lastFrame.tree = s.offscreen,
                           !.lastFrame.drawn = all], "renderFrame")

\* The update-and-filter step of animateParticles.
updateParticles(s) ==
    Log([s EXCEPT !.particlesRef = filterUpdate(@),
                  !.firefliesRef = filterUpdate(@),
                  !.fallingLeavesRef = filterUpdate(@),
                  !.lastFrame.removed = removedBy(s.particlesRef)
                        \o removedBy(s.firefliesRef)
                        \o removedBy(s.fallingLeavesRef)], "update")

\* The two spawn blocks.  in.firefly / in.leaf: Math.random() < spawnChance.
spawnParticles(s, data, currentProgress, in) ==
    LET stars == Repo(data).stars
        health == calculateHealth(Repo(data).days)
        ffRoll == /\ Over08(currentProgress) /\ stars > 500
                  /\ Len(s.firefliesRef) < maxFirefliesFor(stars)
        lfRoll == /\ Over08(currentProgress) /\ health < 5
                  /\ Len(s.fallingLeavesRef) < maxLeavesFor(health)
        s0 == [s EXCEPT !.rolled = @ \cup (IF ffRoll THEN {"firefly"} ELSE {})
                                    \cup (IF lfRoll THEN {"leaf"} ELSE {})]
        s1 == IF ffRoll /\ in.firefly
              THEN [s0 EXCEPT !.firefliesRef = Append(@,
                        NewParticle("firefly", FireflyLife, in.fireflyDecay, data)),
                             !.lastFrame.fireflies = 1]
              ELSE s0
        s2 == IF lfRoll /\ in.leaf
              THEN [s1 EXCEPT !.fallingLeavesRef = Append(@,
                        NewParticle("leaf", LeafLife, in.leafDecay, data)),
                              !.lastFrame.leaves = 1]
              ELSE s1
    IN  Log(s2, "spawn")

\* One call of animateParticles, the frame of the perpetual loop whose
\* closure captured repoData = data.
\* Variant that requests the next frame and does not store its id.
scheduleNextNoRef(s, data) ==
    LET id == FreshId(s, "animateParticles")
    IN  Log([requestAnimationFrame(s, [ id |-> id, kind |-> "animateParticles",
                                        repo |-> data, startTime |-> 0 ])
                EXCEPT !.lastFrame.scheduled = @ + 1], "requestAnimationFrame")
scheduleNext(s, data) ==
    LET id == FreshId(s, "animateParticles")
    IN  Log([requestAnimationFrame(s, [ id |-> id, kind |-> "animateParticles",
                                        repo |-> data, startTime |-> 0 ])
                EXCEPT !.particleAnimationRef = id,
                       !.lastFrame.scheduled = @ + 1], "requestAnimationFrame")

\* The clock step of animateParticles and the record of the call.
FrameStart(s, data) ==
    [s EXCEPT !.lastFrameTimeRef = s.now,
              !.animationTimeRef = @ + (s.now - s.lastFrameTimeRef),
              !.lastFrame = [ NoFrame EXCEPT !.repo = data,
                                  !.active = ActiveRepo(s),
                                  !.progress = s.growthProgressRef,
                                  !.clock = s.animationTimeRef ]]
\* Variant that composites before the update and the spawn.
animateParticlesCompositeFirst(s, data, in) ==
    LET s0 == FrameStart(s, data)
        s1 == [ drawTree(s0, data, s0.growthProgressRef, s0.animationTimeRef, in.emit)
                  EXCEPT !.lastRenderedProgressRef = s0.growthProgressRef ]
        s2 == renderFrame(s1)
        s3 == updateParticles(s2)
        s4 == spawnParticles(s3, data, s0.growthProgressRef, in)
    IN  scheduleNext(s4, data)
\* Variant that updates the collections before the tree is redrawn.
animateParticlesUpdateFirst(s, data, in) ==
    LET s0 == FrameStart(s, data)
        s1 == updateParticles(s0)
        s2 == [ drawTree(s1, data, s0.growthProgressRef, s0.animationTimeRef, in.emit)
                  EXCEPT !.lastRenderedProgressRef = s0.growthProgressRef ]
        s3 == spawnParticles(s2, data, s0.growthProgressRef, in)
        s4 == renderFrame(s3)
    IN  scheduleNext(s4, data)
animateParticles(s, data, in) ==
    LET s0 == FrameStart(s, data)
        currentProgress == s0.growthProgressRef
        s1 == [ drawTree(s0, data, currentProgress, s0.animationTimeRef, in.emit)
                  EXCEPT !.lastRenderedProgressRef = currentProgress ]
        s2 == updateParticles(s1)
        s3 == spawnParticles(s2, data, currentProgress, in)
        s4 == renderFrame(s3)
    IN  scheduleNext(s4, data)

\* App.jsx: lastRenderedProgressRef.current as a progress, -1 being -1.0.
lastRenderedProgress(s) ==
    IF s.lastRenderedProgressRef = -1 THEN -One ELSE s.lastRenderedProgressRef
Abs(x) == IF x < 0 THEN -x ELSE x
\* App.jsx: Math.abs(currentProgress - lastRenderedProgressRef.current) > 0.01
progressChanged(s, currentProgress) ==
    Abs(currentProgress - lastRenderedProgress(s)) * 100 > One

\* App.jsx: one call of animateParticles; the tree is redrawn only if the
\* progress changed, the particles are the only collection and there is no
\* animation clock.  lastFrame.invalidated: the frame found the offscreen
\* canvas resized and not redrawn.
animateParticlesAppJsx(s, data, in) ==
    LET s0 == [s EXCEPT !.lastFrame = [ NoFrame EXCEPT !.repo = data,
                                            !.active = ActiveRepo(s),
                                            !.progress = s.growthProgressRef,
                                            !.invalidated = s.offscreen.resized ]]
        currentProgress == s0.growthProgressRef
        s1 == IF progressChanged(s0, currentProgress)
              THEN [ drawTree(s0, data, currentProgress, 0, in.emit)
                       EXCEPT !.lastRenderedProgressRef = currentProgress ]
              ELSE s0
        s2 == Log([s1 EXCEPT !.particlesRef = filterUpdate(@),
                             !.lastFrame.removed = removedBy(s1.particlesRef)],
                  "update")
        s3 == renderFrame(s2)
    IN  scheduleNext(s3, data)

\* The frame callback of the component that runs.
animateParticlesOf(s, data, in) ==
    IF s.variant = AppJsx THEN animateParticlesAppJsx(s, data, in)
    ELSE animateParticles(s, data, in)

\* One call of animate, the frame callback of the growth animation whose
\* closure captured startTime.
animate(s, startTime) ==
    LET elapsed == s.now - startTime
        eased == easedProgress(elapsed)
        s1 == [s EXCEPT !.growthProgressRef = eased]
    IN  IF elapsed < D
        THEN LET id == FreshId(s1, "animate")
             IN  [requestAnimationFrame(s1, [ id |-> id, kind |-> "animate",
                                              repo |-> "", startTime |-> startTime ])
                     EXCEPT !.animationRef = id]
        ELSE [s1 EXCEPT !.pending.isAnimating = << FALSE >>]

\* ---------------------------------------------------------------- effects
\* useEffect(..., [isAnimating]): the growth animation
growthEffect(s) ==
    IF ~s.isAnimating THEN [s EXCEPT !.growthCleanup = FALSE]
    ELSE LET id == FreshId(s, "animate")
         IN  [requestAnimationFrame(s, [ id |-> id, kind |-> "animate",
                                         repo |-> "", startTime |-> s.now ])
                 EXCEPT !.animationRef = id, !.growthCleanup = TRUE]

growthEffectCleanup(s) ==
    IF s.growthCleanup THEN cancelAnimationFrame(s, s.animationRef) ELSE s

\* useEffect(..., [repoData, drawTree, renderFrame]): the perpetual loop;
\* lastFrame.first marks the frame the effect itself calls, lastFrame.clock
\* is the clock a frame starts from.
\* Variant that leaves the animation clock as it is.
loopEffectNoReset(s, in) ==
    IF ~s.canvasRef \/ ~s.offscreenCanvasRef THEN [s EXCEPT !.loopCleanup = FALSE]
    ELSE LET s1 == cancelAnimationFrame(s, s.particleAnimationRef)
             s2 == [s1 EXCEPT !.lastFrameTimeRef = s.now]
         IN  [animateParticles(s2, s.repoData, in)
                 EXCEPT !.loopCleanup = TRUE, !.lastFrame.first = TRUE]
loopEffect(s, in) ==
    IF ~s.canvasRef \/ ~s.offscreenCanvasRef THEN [s EXCEPT !.loopCleanup = FALSE]
    ELSE LET s1 == cancelAnimationFrame(s, s.particleAnimationRef)
             s2 == [s1 EXCEPT !.animationTimeRef = 0, !.lastFrameTimeRef = s.now]
         IN  [animateParticles(s2, s.repoData, in)
                 EXCEPT !.loopCleanup = TRUE, !.lastFrame.first = TRUE]

\* App.jsx: the perpetual loop's effect.
loopEffectAppJsx(s, in) ==
    IF ~s.canvasRef \/ ~s.offscreenCanvasRef THEN [s EXCEPT !.loopCleanup = FALSE]
    ELSE LET s1 == cancelAnimationFrame(s, s.particleAnimationRef)
         IN  [animateParticlesAppJsx(s1, s.repoData, in)
                 EXCEPT !.loopCleanup = TRUE, !.lastFrame.first = TRUE]

\* The loop effect of the component that runs.
loopEffectOf(s, in) ==
    IF s.variant = AppJsx THEN loopEffectAppJsx(s, in) ELSE loopEffect(s, in)

loopEffectCleanup(s) ==
    IF s.loopCleanup THEN cancelAnimationFrame(s, s.particleAnimationRef) ELSE s

\* useEffect(..., []): canvas size and the offscreen canvas
canvasInitEffect(s) ==
    IF ~s.canvasRef THEN s
    ELSE [s EXCEPT !.offscreenCanvasRef = TRUE, !.offscreen = Blank]

\* useEffect(..., []): window resize listener
resizeEffect(s) == [s EXCEPT !.resizeListener = TRUE]
resizeEffectCleanup(s) == [s EXCEPT !.resizeListener = FALSE]

\* useEffect(..., []): custom repos from localStorage
customReposEffect(s) ==
    IF s.storage # << >> THEN [s EXCEPT !.pending.customRepos = << s.storage[1] >>]
    ELSE s

\* useEffect(..., []): initial animation
initialAnimationEffect(s) ==
    [s EXCEPT !.growthProgressRef = 0, !.pending.isAnimating = << TRUE >>]

\* The passive effects of the first commit, in declaration order.
mountEffects(s, in) ==
    initialAnimationEffect(customReposEffect(resizeEffect(canvasInitEffect(
        loopEffectOf(growthEffect(s), in)))))

mountCleanups(s) ==
    resizeEffectCleanup(loopEffectCleanup(growthEffectCleanup(s)))

\* ----------------------------------------------------------- React commit
Latest(upd, cur) == IF upd # << >> THEN upd[1] ELSE cur

\* Render and commit: the enqueued updates become the state; an effect is
\* due when one of its dependencies changed.
commit(s) ==
    LET r == Latest(s.pending.repoData, s.repoData)
        a == Latest(s.pending.isAnimating, s.isAnimating)
    IN  [s EXCEPT !.repoData = r, !.isAnimating = a,
                  !.customRepos = Latest(s.pending.customRepos, @),
                  !.isLoading = Latest(s.pending.isLoading, @),
                  !.error = Latest(s.pending.error, @),
                  !.pending = NoPending,
                  !.effectsDue = @ \cup (IF a # s.isAnimating THEN {"growth"} ELSE {})
                                   \cup (IF r # s.repoData THEN {"loop"} ELSE {})]

\* The due effects: every cleanup, then every effect, in declaration order.
flushPassiveEffects(s, in) ==
    LET due == s.effectsDue
        c1 == IF "growth" \in due THEN growthEffectCleanup(s) ELSE s
        c2 == IF "loop" \in due THEN loopEffectCleanup(c1) ELSE c1
        e1 == IF "growth" \in due THEN growthEffect(c2) ELSE c2
        e2 == IF "loop" \in due THEN loopEffectOf(e1, in) ELSE e1
    IN  [e2 EXCEPT !.effectsDue = {}]

\* End of a click or submit handler: due effects, render, commit, effects.
flushSync(s, in) ==
    IF s.mounted # "mounted" THEN s
    ELSE flushPassiveEffects(commit(flushPassiveEffects(s, in)), in)

\* --------------------------------------------------------------- handlers
\* loadRepo(index, isCustom) with repo = the record it looks up
loadRepo(s, repo) ==
    [s EXCEPT !.pending.repoData = << repo >>,
              !.growthProgressRef = 0,
              !.lastRenderedProgressRef = -1,
              !.particlesRef = << >>,
              !.firefliesRef = << >>,
              !.fallingLeavesRef = << >>,
              !.pending.isAnimating = << TRUE >>,
              !.switchTime = IF repo # ActiveRepo(s) THEN s.now ELSE @,
              !.lastOp = IF repo # ActiveRepo(s) THEN "loadRepo" ELSE @]

IndexOf(q, key) ==
    IF \E i \in 1..Len(q) : q[i] = key
    THEN CHOOSE i \in 1..Len(q) : q[i] = key /\ \A j \in 1..(i - 1) : q[j] # key
    ELSE 0

\* handleLoadCustomRepo after the await resolved with repo; list is the
\* customRepos captured when the form was submitted.
\* Variant that adds the fetched record without looking for it in the list.
customRepoLoadedAlwaysAdds(s, repo, list) ==
    [s EXCEPT !.pending.customRepos = << Append(list, repo) >>,
              !.storage = << Append(list, repo) >>,
              !.pending.repoData = << repo >>,
              !.growthProgressRef = 0,
              !.lastRenderedProgressRef = -1,
              !.particlesRef = << >>,
              !.pending.isAnimating = << TRUE >>,
              !.pending.isLoading = << FALSE >>,
              !.fetch = NoFetch,
              !.lastOp = "customAdd"]
customRepoLoaded(s, repo, list) ==
    LET existingIndex == IndexOf(list, repo)
        s1 == IF existingIndex > 0
              THEN loadRepo(s, list[existingIndex])
              ELSE [s EXCEPT !.pending.customRepos = << Append(list, repo) >>,
                             !.storage = << Append(list, repo) >>,
                             !.pending.repoData = << repo >>,
                             !.growthProgressRef = 0,
                             !.lastRenderedProgressRef = -1,
                             !.particlesRef = << >>,
                             !.pending.isAnimating = << TRUE >>,
                             !.switchTime = IF repo # ActiveRepo(s) THEN s.now ELSE @,
                             !.lastOp = "customAdd"]
    IN  [s1 EXCEPT !.pending.isLoading = << FALSE >>, !.fetch = NoFetch]

\* The messages fetchGitHubRepo throws: HTTP 404, HTTP 403, any other
\* response that is not ok.
FetchErrors ==
    { "Repository not found",
      "API rate limit exceeded. Please try again later.",
      "Failed to fetch repository" }

\* handleLoadCustomRepo when the await threw
\* Variant whose catch block also empties the ambient particles.
customRepoFailedClearing(s, message) ==
    [s EXCEPT !.pending.error = << message >>,
              !.pending.isLoading = << FALSE >>,
              !.particlesRef = << >>,
              !.fetch = NoFetch,
              !.lastOp = "customFail"]
customRepoFailed(s, message) ==
    [s EXCEPT !.pending.error = << message >>,
              !.pending.isLoading = << FALSE >>,
              !.fetch = NoFetch,
              !.lastOp = "customFail"]

\* handleLoadCustomRepo up to the await; input: "", "invalid" or owner/repo
handleLoadCustomRepo(s, input) ==
    LET s1 == [s EXCEPT !.pending.error = << "" >>]
    IN  IF input = ""
        THEN [s1 EXCEPT !.pending.error = << "Please enter a GitHub repository URL" >>,
                        !.lastOp = "customFail"]
        ELSE IF input = "invalid"
        THEN [s1 EXCEPT !.pending.error = << "Invalid GitHub URL" >>,
                        !.lastOp = "customFail"]
        ELSE [s1 EXCEPT !.pending.isLoading = << TRUE >>,
                        !.fetch = [ st |-> "inflight", result |-> input,
                                    customRepos |-> s.customRepos ]]

\* The Clear button
\* App.jsx: loadRepo(index) with repo = MOCK_REPOS[index]
loadRepoAppJsx(s, repo) ==
    [s EXCEPT !.pending.repoData = << repo >>,
              !.growthProgressRef = 0,
              !.lastRenderedProgressRef = -1,
              !.particlesRef = << >>,
              !.pending.isAnimating = << TRUE >>,
              !.switchTime = IF repo # ActiveRepo(s) THEN s.now ELSE @,
              !.lastOp = IF repo # ActiveRepo(s) THEN "loadRepo" ELSE @]

clearCustomRepos(s) ==
    LET s1 == [s EXCEPT !.pending.customRepos = << << >> >>,
                        !.storage = << >>]
    IN  IF Repo(s.repoData).isCustom THEN loadRepo(s1, MOCK_REPOS[1].fullName) ELSE s1

\* Variant that resizes the canvases and keeps the last-rendered marker.
handleResizeKeepsMarker(s) ==
    IF ~s.canvasRef \/ ~s.offscreenCanvasRef THEN s
    ELSE [s EXCEPT !.offscreen = Resized]

\* handleResize: setting width and height clears the canvas.
handleResize(s) ==
    IF ~s.canvasRef \/ ~s.offscreenCanvasRef THEN s
    ELSE [s EXCEPT !.offscreen = Resized, !.lastRenderedProgressRef = -1]

\* The component is removed: every effect's cleanup runs, the canvas ref is
\* detached and the useState values go with the instance.  The refs go too
\* once no callback and no awaiting handler can reach them.
unmount(s) ==
    LET s1 == [mountCleanups(s) EXCEPT
                   !.mounted = "unmounted", !.canvasRef = FALSE,
                   !.pending = NoPending, !.effectsDue = {},
                   !.repoData = MOCK_REPOS[1].fullName,
                   !.isAnimating = FALSE, !.customRepos = << >>,
                   !.isLoading = FALSE, !.error = "",
                   !.switchTime = -1]
    IN  IF s1.rafQueue # << >> \/ s1.fetch.st # Idle THEN s1
        ELSE [s1 EXCEPT !.growthCleanup = FALSE, !.loopCleanup = FALSE,
                        !.particlesRef = << >>, !.firefliesRef = << >>,
                        !.fallingLeavesRef = << >>,
                        !.animationTimeRef = 0, !.lastFrameTimeRef = 0,
                        !.growthProgressRef = 0, !.lastRenderedProgressRef = -1,
                        !.animationRef = 0, !.particleAnimationRef = 0,
                        !.offscreenCanvasRef = FALSE, !.offscreen = Blank]

\* One animation frame of the browser: the callbacks registered before it.
RECURSIVE runCallbacks(_, _)
runCallbacks(s, in) ==
    IF s.running = << >> THEN s
    ELSE LET cb == Head(s.running)
             s1 == [s EXCEPT !.running = Tail(@)]
         IN  runCallbacks(IF cb.kind = "animate" THEN animate(s1, cb.startTime)
                          ELSE animateParticlesOf(s1, cb.repo, in), in)

\* The frame that comes step after the last one.
animationFrameAfter(s, step, in) ==
    runCallbacks([s EXCEPT !.now = @ + step, !.running = s.rafQueue,
                           !.rafQueue = << >>], in)
animationFrame(s, in) == animationFrameAfter(s, FrameStep, in)

\* ---------------------------------------------------------------- actions
\* What Math.random() and the seeded tree decide in one animateParticles:
\* emit ambient particles, firefly / leaf: the spawn roll succeeded, and the
\* decay the new Firefly / FallingLeaf draws.
FrameInputs ==
    { in \in [ emit : 0..MaxEmit, firefly : BOOLEAN, fireflyDecay : {1, 2},
               leaf : BOOLEAN, leafDecay : {1} ] :
        /\ (~in.firefly => in.fireflyDecay = 1)
        /\ (~in.leaf => in.leafDecay = 1) }
NoInput == [ emit |-> 0, firefly |-> FALSE, fireflyDecay |-> 1,
            leaf |-> FALSE, leafDecay |-> 1 ]

\* The inputs that can make a difference to an operation whose outcome with
\* NoInput is r: a draw that r did not consume is left at its NoInput value.
InputsFor(r) ==
    { in \in FrameInputs :
        /\ ("emit" \in r.rolled \/ in.emit = 0)
        /\ ("firefly" \in r.rolled \/ ~in.firefly)
        /\ ("leaf" \in r.rolled \/ ~in.leaf) }

\* First commit of the component and its passive effects.
Mount ==
    /\ mounted = "init"
    /\ LET s0 == [Begin EXCEPT !.mounted = "mounted", !.canvasRef = TRUE]
           F(in) == IF strictMode
                    THEN mountEffects(mountCleanups(mountEffects(s0, in)), in)
                    ELSE mountEffects(s0, in)
       IN  \E in \in InputsFor(F(NoInput)) : Apply(F(in))

Unmount ==
    /\ mounted = "mounted"
    /\ Apply(unmount(Begin))

\* React renders the updates enqueued outside an event handler.
Render ==
    /\ mounted = "mounted"
    /\ pending # NoPending
    /\ LET F(in) == commit(flushPassiveEffects(Begin, in))
       IN  \E in \in InputsFor(F(NoInput)) : Apply(F(in))

FlushPassiveEffects ==
    /\ mounted = "mounted"
    /\ effectsDue # {}
    /\ LET F(in) == flushPassiveEffects(Begin, in)
       IN  \E in \in InputsFor(F(NoInput)) : Apply(F(in))

AnimationFrame ==
    /\ now + FrameStep <= MaxTime
    /\ LET F(in) == animationFrame(Begin, in)
       IN  \E in \in InputsFor(F(NoInput)) : Apply(F(in))

\* Click on a mock repository of the sidebar; the clicks explored.
MockClicks == {1, 4}

LoadMockRepo ==
    /\ mounted = "mounted"
    /\ \E index \in MockClicks :
        LET F(in) == flushSync(loadRepo(Begin, MOCK_REPOS[index].fullName), in)
        IN  \E in \in InputsFor(F(NoInput)) : Apply(F(in))

\* Click on a custom repository of the sidebar.
LoadCustomRepo ==
    /\ mounted = "mounted"
    /\ \E index \in 1..Len(customRepos) :
        LET F(in) == flushSync(loadRepo(Begin, customRepos[index]), in)
        IN  \E in \in InputsFor(F(NoInput)) : Apply(F(in))

\* Submit of the URL form (disabled while isLoading).
SubmitCustomRepo ==
    /\ mounted = "mounted"
    /\ ~isLoading
    /\ fetch.st = Idle
    /\ \E input \in {"", "invalid"} \cup { r.fullName : r \in FetchResults } :
        LET F(in) == flushSync(handleLoadCustomRepo(Begin, input), in)
        IN  \E in \in InputsFor(F(NoInput)) : Apply(F(in))

FetchResolved ==
    /\ fetch.st = "inflight"
    /\ Apply(customRepoLoaded(Begin, fetch.result, fetch.customRepos))

FetchFailed ==
    /\ fetch.st = "inflight"
    /\ \E message \in FetchErrors :
        Apply(customRepoFailed(Begin, message))

ClearCustomRepos ==
    /\ mounted = "mounted"
    /\ Len(customRepos) > 0
    /\ LET F(in) == flushSync(clearCustomRepos(Begin), in)
       IN  \E in \in InputsFor(F(NoInput)) : Apply(F(in))

Resize ==
    /\ resizeListener
    /\ Apply(handleResize(Begin))

Next ==
    \/ Mount
    \/ Unmount
    \/ Render
    \/ FlushPassiveEffects
    \/ AnimationFrame
    \/ LoadMockRepo
    \/ LoadCustomRepo
    \/ SubmitCustomRepo
    \/ FetchResolved
    \/ FetchFailed
    \/ ClearCustomRepos
    \/ Resize

Spec == Init /\ [][Next]_vars
CustomSpec == CustomInit /\ [][Next]_vars

\* App.jsx: the frames come FrameStep or ShortFrame apart.
AnimationFrameAppJsx ==
    \E step \in { ShortFrame, FrameStep } :
        /\ now + step <= MaxTime
        /\ LET F(in) == animationFrameAfter(Begin, step, in)
           IN  \E in \in InputsFor(F(NoInput)) : Apply(F(in))

LoadMockRepoAppJsx ==
    /\ mounted = "mounted"
    /\ \E index \in MockClicks :
        LET F(in) == flushSync(loadRepoAppJsx(Begin, MOCK_REPOS[index].fullName), in)
        IN  \E in \in InputsFor(F(NoInput)) : Apply(F(in))

AppJsxNext ==
    \/ Mount
    \/ Unmount
    \/ Render
    \/ FlushPassiveEffects
    \/ AnimationFrameAppJsx
    \/ LoadMockRepoAppJsx
    \/ Resize

AppJsxSpec == AppJsxInit /\ [][AppJsxNext]_vars

\* ------------------------------------------------------------- properties
AllParticles == particlesRef \o firefliesRef \o fallingLeavesRef
FrameRan == lastFrame.steps # << >>
LoopCallbacks == SelectSeq(rafQueue, LAMBDA c : c.kind = "animateParticles")
InSeq(q) == { q[i] : i \in 1..Len(q) }

\* C1: for every operation that changes the active repository, also one made
\* while isAnimating is already true, growthProgress is 0 at the switch and
\* then follows a fresh 2000 ms clock measured from the switch: it is never
\* ahead of the eased value of the time elapsed since the switch.
C1_GrowthRestartsOnSwitch ==
    (mounted = "mounted" /\ switchTime >= 0)
        => growthProgressRef <= easedProgress(now - switchTime)

\* C2: immediately after an operation that changes the active repository
\* (loadRepo, or handleLoadCustomRepo adding a fetched repository) the three
\* particle collections are empty.
C2_SwitchClearsCollections ==
    lastOp \in {"loadRepo", "customAdd"}
        => particlesRef = << >> /\ firefliesRef = << >> /\ fallingLeavesRef = << >>

\* C3: after a repository switch no frame of the old repository's loop runs
\* and pushes particles built from the old repository into the cleared
\* collection: every ambient particle was built from the active repository.
C3_NoStaleParticles ==
    mounted = "mounted"
        => \A p \in InSeq(particlesRef) : p.src = ActiveRepo(St)

\* C4: from the mount on the perpetual loop is running: one frame callback
\* of it is pending whenever the component is mounted.
C4_LoopRunsFromMount ==
    mounted = "mounted" => Len(LoopCallbacks) = 1

\* C5: every frame of the perpetual loop runs its steps in this order:
\* redraw the tree into the offscreen buffer, update and filter the three
\* collections, spawn, composite, request the next frame; so the composite
\* shows the tree redrawn in this frame and exactly the particles that are
\* in the collections after the update and the spawn of this frame.
FrameOrder ==
    << "drawTree", "update", "spawn", "renderFrame", "requestAnimationFrame" >>
FreshDrawn ==
    SelectSeq(lastFrame.drawn, LAMBDA p : p.kind = "particle" /\ p.age <= 1)
C6_EmittedDrawnWithFullLife ==
    FrameRan => \A p \in InSeq(FreshDrawn) : p.life = ParticleLife
\* C6 (amended): an ambient particle emitted during a frame's tree redraw
\* is in the collection before the update step, is updated once and is
\* composited in that same frame with life = 1 - decay.
C6_EmittedDrawnAfterOneUpdate ==
    FrameRan =>
        /\ Len(FreshDrawn) = lastFrame.emitted
        /\ \A p \in InSeq(FreshDrawn) :
              p.age = 1 /\ p.life = ParticleLife - p.decay /\ p.life > 0
C6_Witness ==
    FrameRan /\ lastFrame.emitted > 0 /\ Len(FreshDrawn) > 0

\* C7: a particle, firefly or falling leaf is removed at the first update
\* at which its life is <= 0 and is never drawn with life <= 0.
C7_ParticleLifecycle ==
    /\ \A p \in InSeq(AllParticles) : p.life > 0 /\ p.falses = 0
    /\ \A p \in InSeq(lastFrame.drawn) : p.life > 0
    /\ \A p \in InSeq(lastFrame.removed) :
          p.falses = 1 /\ p.life <= 0 /\ p.life + p.decay > 0
C7_Witness ==
    /\ FrameRan
    /\ \E p \in InSeq(lastFrame.removed) : p.kind = "particle"
    /\ \E p \in InSeq(lastFrame.removed) : p.kind = "firefly"
    /\ lastFrame.drawn # << >>

\* C8: after any sequence of frames and repository switches the number of
\* live fireflies is at most min(15, floor(log10(stars) * 3)) of the active
\* repository's stars.
C8_FirefliesWithinCap ==
    mounted = "mounted" =>
        Len(firefliesRef) <= maxFirefliesFor(Repo(ActiveRepo(St)).stars)

\* C9: a frame adds at most one firefly and at most one falling leaf; it
\* adds a firefly only if growthProgress > 0.8 and the active repository
\* has more than 500 stars, and a leaf only if growthProgress > 0.8 and the
\* active repository's health is below 0.5.
SpawnedNow(q) == SelectSeq(q, LAMBDA p : p.age = 0)
C9_SpawnConditions ==
    FrameRan =>
        /\ Len(SpawnedNow(firefliesRef)) <= 1
        /\ Len(SpawnedNow(fallingLeavesRef)) <= 1
        /\ SpawnedNow(firefliesRef) # << >> =>
              Over08(lastFrame.progress) /\ Repo(lastFrame.active).stars > 500
        /\ SpawnedNow(fallingLeavesRef) # << >> =>
              /\ Over08(lastFrame.progress)
              /\ calculateHealth(Repo(lastFrame.active).days) < 5

\* C10: at most one frame callback of the perpetual loop is pending at any
\* time, and it is the one particleAnimationRef names, so that a restart
\* can cancel it.
C10_AtMostOneLoopCallback ==
    /\ Len(LoopCallbacks) <= 1
    /\ \A c \in InSeq(LoopCallbacks) : c.id = particleAnimationRef
C10_Witness ==
    /\ strictMode
    /\ lastOp = "loadRepo"
    /\ Len(LoopCallbacks) = 1
    /\ LoopCallbacks[1].repo = "user/abandoned-repo"
    /\ repoData = "user/abandoned-repo"

\* ================================================= the renderer's functions
\* The pure functions of the renderer, studied one call at a time: call holds
\* the function, its argument and its result.

\* ---------------------------------------------------------------- bounds
MaxDays == 400         \* days since the last push that are explored
DayParts == 4          \* parts of a day told apart (fractional days)
MaxCommit == 120       \* commit counts 0..MaxCommit are explored in full
MaxMetric == 3         \* metric values 0..MaxMetric are explored in full
MaxSeed == 40          \* seeds 0..MaxSeed are explored in full
MaxDraws == 3          \* next() calls explored on each generator instance

\* ------------------------------------------------------- JavaScript numbers
\* A JavaScript value that the metric mapping can meet: a finite integer,
\* NaN, +Infinity, -Infinity or undefined.
Num(n) == [ k |-> "num", v |-> n ]
NaN == [ k |-> "NaN", v |-> 0 ]
Infinity == [ k |-> "Infinity", v |-> 0 ]
NegInfinity == [ k |-> "-Infinity", v |-> 0 ]
undefined == [ k |-> "undefined", v |-> 0 ]
IsNum(x) == x.k = "num"

\* x + 1
plusOne(x) ==
    IF x.k = "num" THEN Num(x.v + 1)
    ELSE IF x.k = "undefined" THEN NaN
    ELSE x

\* x || d: d when x is falsy (undefined, NaN, 0)
orDefault(x, d) ==
    IF x.k \in {"undefined", "NaN"} \/ (x.k = "num" /\ x.v = 0) THEN d ELSE x

\* a < b for JavaScript numbers (false when either is NaN)
jsLess(a, b) ==
    /\ a.k \in {"num", "Infinity", "-Infinity"}
    /\ b.k \in {"num", "Infinity", "-Infinity"}
    /\ \/ a.k = "-Infinity" /\ b.k # "-Infinity"
       \/ a.k # "Infinity" /\ b.k = "Infinity"
       \/ a.k = "num" /\ b.k = "num" /\ a.v < b.v

\* Math.max(a, b), Math.min(a, b): NaN when either is NaN
mathMax(a, b) ==
    IF a.k \in {"NaN", "undefined"} \/ b.k \in {"NaN", "undefined"} THEN NaN
    ELSE IF jsLess(a, b) THEN b ELSE a
mathMin(a, b) ==
    IF a.k \in {"NaN", "undefined"} \/ b.k \in {"NaN", "undefined"} THEN NaN
    ELSE IF jsLess(b, a) THEN b ELSE a

\* ceil(10^(5k/8)) for k = 0..10:
\* floor(log10(n) * 1.6) >= k  iff  n >= Pow10FiveEighths[k+1]
Pow10FiveEighths ==
    << 1, 5, 18, 75, 317, 1334, 5624, 23714, 100000, 421697, 1778280 >>

\* Math.floor(Math.log10(x) * 1.6); for a finite x >= 1 the result is exact
\* up to 10, the value the mapping clamps at.
floorLog10Times16(x) ==
    IF x.k = "num"
    THEN IF x.v < 0 THEN NaN
         ELSE IF x.v = 0 THEN NegInfinity
         ELSE Num(Cardinality({ k \in 1..Len(Pow10FiveEighths) :
                                  Pow10FiveEighths[k] <= x.v }) - 1)
    ELSE IF x.k = "Infinity" THEN Infinity
    ELSE NaN

\* maxDepth = Math.min(10, Math.max(4, Math.floor(Math.log10(commitCount + 1) * 1.6)))
\* Variant without the lower clamp.
maxDepthNoFloor(commitCount) ==
    mathMin(Num(10), floorLog10Times16(plusOne(commitCount)))
maxDepthOf(commitCount) ==
    mathMin(Num(10), mathMax(Num(4), floorLog10Times16(plusOne(commitCount))))

\* floor(10^(j/10)) for j = 0..59:
\* ceil(10 * log10(n)) = the number of j with n > Pow10Tenth[j+1]
Pow10Tenth ==
    << 1, 1, 1, 1, 2, 3, 3, 5, 6, 7,
       10, 12, 15, 19, 25, 31, 39, 50, 63, 79,
       100, 125, 158, 199, 251, 316, 398, 501, 630, 794,
       1000, 1258, 1584, 1995, 2511, 3162, 3981, 5011, 6309, 7943,
       10000, 12589, 15848, 19952, 25118, 31622, 39810, 50118, 63095, 79432,
       100000, 125892, 158489, 199526, 251188, 316227, 398107, 501187,
       630957, 794328 >>

\* Math.log10(x) in tenths, rounded up and, for x > 10^5.9, held at 60 (the
\* mappings that use it clamp there): a test log10(x) > j/10 is exact.
log10Tenths(x) ==
    IF x.k = "num"
    THEN IF x.v < 0 THEN NaN
         ELSE IF x.v = 0 THEN NegInfinity
         ELSE Num(Cardinality({ j \in 1..Len(Pow10Tenth) : x.v > Pow10Tenth[j] }))
    ELSE IF x.k = "Infinity" THEN Infinity
    ELSE NaN

\* a + b * x and x * p / q for a JavaScript number x (b, p, q > 0)
affine(a, b, x) == IF x.k = "num" THEN Num(a + b * x.v) ELSE IF x.k = "undefined" THEN NaN ELSE x
scaled(x, p, q) ==
    IF x.k = "num" THEN Num((x.v * p) \div q)
    ELSE IF x.k = "undefined" \/ p = 0 THEN NaN
    ELSE x

\* The metric mapping of drawTree.  Lengths are in 1/100 px, commitDensity
\* and sizeSpread in 1/60, progress in percent.
\* const commitCount = data.commitCount || 100; Math.min(1, Math.log10(commitCount + 1) / 6)
commitDensityOf(data) ==
    mathMin(Num(60), log10Tenths(plusOne(orDefault(data.commitCount, Num(100)))))
\* const size = data.size || 1000; Math.min(1, Math.log10(size + 1) / 6)
sizeSpreadOf(data) ==
    mathMin(Num(60), log10Tenths(plusOne(orDefault(data.size, Num(1000)))))
\* Math.min(180, 100 + Math.log10(data.size + 1) * 18)
baseTrunkLengthOf(data) ==
    mathMin(Num(18000), affine(10000, 180, log10Tenths(plusOne(data.size))))
\* baseTrunkLength * progress
trunkLengthOf(data, progress) == scaled(baseTrunkLengthOf(data), progress, 100)

\* data.stars || 0, data.forks || 0
starsOf(data) == orDefault(data.stars, Num(0))
forksOf(data) == orDefault(data.forks, Num(0))
\* if (progress > 0.5 && stars > 100) drawAura(...)
\* Variant that draws the aura whatever the stars.
auraDrawnAlways(data, progress) == progress > 50
auraDrawn(data, progress) == progress > 50 /\ jsLess(Num(100), starsOf(data))
\* if (progress > 0.3 && forks > 10) drawRoots(...)
rootsDrawn(data, progress) == progress > 30 /\ jsLess(Num(10), forksOf(data))
\* animateParticles: if (currentProgress > 0.8 && stars > 500)
fireflyWanted(data, progress) == progress > 80 /\ jsLess(Num(500), starsOf(data))

\* What drawTree derives from data at progress, and the spawn test of the
\* frame that draws it.
treeMetrics(data, progress) ==
    [ maxDepth |-> maxDepthOf(data.commitCount),
      trunkLength |-> trunkLengthOf(data, progress),
      commitDensity |-> commitDensityOf(data),
      sizeSpread |-> sizeSpreadOf(data),
      aura |-> auraDrawn(data, progress),
      roots |-> rootsDrawn(data, progress),
      firefly |-> fireflyWanted(data, progress) ]

\* healthLabel, health in tenths
healthLabel(health) ==
    IF health > 8 THEN "Thriving"
    ELSE IF health > 6 THEN "Active"
    ELSE IF health > 4 THEN "Dormant"
    ELSE "Withered"

\* ------------------------------------------------------------ SeededRandom
Modulus == 233280
\* this.seed = (this.seed * 9301 + 49297) % 233280, for a seed >= 0.  The
\* product is formed as ((seed * 93) * 100 + seed) with the remainder taken
\* in between, which is the same number and stays within the integers of
\* the model checker.
SeededRandomNext(seed) ==
    LET s == seed % Modulus
        p == (((s * 93) % Modulus) * 100 + s) % Modulus
    IN  (p + 49297) % Modulus

\* Two instances constructed with the same seed: [a, b] their seed fields,
\* [outA, outB] the states behind the values they have returned.
NewGenerators(seed) == [ a |-> seed, b |-> seed, outA |-> << >>, outB |-> << >> ]
\* Variant in which the instances share one seed field.
nextShared(g, inst) ==
    LET n == SeededRandomNext(g.a)
    IN  IF inst = "a"
        THEN [g EXCEPT !.a = n, !.b = n, !.outA = Append(@, n)]
        ELSE [g EXCEPT !.a = n, !.b = n, !.outB = Append(@, n)]
\* next() on one of the instances
next(g, inst) ==
    IF inst = "a"
    THEN LET n == SeededRandomNext(g.a) IN [g EXCEPT !.a = n, !.outA = Append(@, n)]
    ELSE LET n == SeededRandomNext(g.b) IN [g EXCEPT !.b = n, !.outB = Append(@, n)]

\* ------------------------------------------------------------------ inputs
\* drawBranch.  Lengths are in 1/10000 px, random numbers are the
\* generator's states s (random.next() = s / 233280).
\* if (depth > maxDepth || length < 2) return
\* Variant without the depth test.
drawBranchReturnsOnLength(depth, maxDepth, length) == length < 20000
drawBranchReturns(depth, maxDepth, length) == depth > maxDepth \/ length < 20000
\* lengthReduction = 0.65 + random.next() * 0.15; newLength = length * lengthReduction
newLength(length, s) == (length * (650 + (s * 150) \div Modulus)) \div 1000
\* branchCount, commitDensity in 1/60
\* Variant that rolls for the branch count at every depth.
branchCountRolled(depth, commitDensity, densityRoll) ==
    IF commitDensity > 42 /\ densityRoll * 10 > 6 * Modulus THEN 4
    ELSE IF commitDensity > 24 /\ densityRoll * 10 > 4 * Modulus THEN 3
    ELSE 2
branchCountFor(depth, commitDensity, densityRoll) ==
    IF depth < 2 THEN 2
    ELSE IF commitDensity > 42 /\ densityRoll * 10 > 6 * Modulus THEN 4
    ELSE IF commitDensity > 24 /\ densityRoll * 10 > 4 * Modulus THEN 3
    ELSE 2

\* One call of drawBranch on a path of the recursion: it returns at once or
\* draws its segment and calls its children.
\* Variant that enters with the test that lacks the depth.
enterOnLength(depth, maxDepth, length) ==
    [ depth |-> depth, length |-> length,
      drawn |-> ~drawBranchReturnsOnLength(depth, maxDepth, length) ]
enter(depth, maxDepth, length) ==
    [ depth |-> depth, length |-> length,
      drawn |-> ~drawBranchReturns(depth, maxDepth, length) ]

\* The whole render.  acc is what a render leaves behind: the generator's
\* state, the number of random.next() calls, of drawBranch calls, of
\* segments, leaves and emitted particles, the summed length and the summed
\* angle of the segments, the summed shadowBlur, and two running digests:
\* shape, of the depths of the calls in the order they are made, and
\* emitAt, of the calls that emitted a particle.  P holds maxDepth, health
\* (tenths), commitDensity and sizeSpread (1/60), windOffset (1/10000 rad)
\* and glowIntensity (1/1000).  Angles are in 1/10000 rad.
Digest(d, x) == (d * 31 + x) % 1000003
roll(acc) == [ acc EXCEPT !.rng = SeededRandomNext(@), !.nexts = @ + 1 ]

\* leafChance = 0.3 - (1 - health) * 0.2 - (1 - commitDensity) * 0.1, in 1/6000
leafChance(P) == 1800 - (10 - P.health) * 120 - (60 - P.commitDensity) * 10
\* random.next() > (1 - Math.max(0.1, leafChance * 2))
shouldDrawLeaf(s, P) ==
    LET m == IF 2 * leafChance(P) > 600 THEN 2 * leafChance(P) ELSE 600
    IN  s * 6000 > (6000 - m) * Modulus

\* A leaf block that lets the wind decide the second leaf.
drawLeavesInWind(acc, P) ==
    LET rich == P.health > 6 /\ P.commitDensity > 30
        a0 == IF rich THEN roll(acc) ELSE acc
        leafCount == IF rich /\ a0.rng * 2 > Modulus /\ P.windOffset >= 0 THEN 2 ELSE 1
        a1 == roll(roll(a0))
        a2 == IF leafCount = 2 THEN roll(roll(roll(roll(a1)))) ELSE a1
        a3 == roll(a2)
        emits == a3.rng * 100 > (95 - P.health) * Modulus
    IN  [ a3 EXCEPT !.leaves = @ + leafCount,
                    !.emitted = @ + (IF emits THEN 1 ELSE 0),
                    !.emitAt = IF emits THEN Digest(@, a3.calls) ELSE @ ]

\* The leaf block: leafCount (a random.next() only for health > 0.6 and
\* commitDensity > 0.5), two calls for the first leaf, four for the second,
\* then the particle roll against 0.95 - health * 0.1.
drawLeaves(acc, P) ==
    LET rich == P.health > 6 /\ P.commitDensity > 30
        a0 == IF rich THEN roll(acc) ELSE acc
        leafCount == IF rich /\ a0.rng * 2 > Modulus THEN 2 ELSE 1
        a1 == roll(roll(a0))
        a2 == IF leafCount = 2 THEN roll(roll(roll(roll(a1)))) ELSE a1
        a3 == roll(a2)
        emits == a3.rng * 100 > (95 - P.health) * Modulus
    IN  [ a3 EXCEPT !.leaves = @ + leafCount,
                    !.emitted = @ + (IF emits THEN 1 ELSE 0),
                    !.emitAt = IF emits THEN Digest(@, a3.calls) ELSE @ ]

\* windEffect = windOffset * (depth / maxDepth) * 0.8
windEffect(depth, P) == (P.windOffset * depth * 8) \div (P.maxDepth * 10)
\* baseAngleSpread = Math.PI * (0.11 + sizeSpread * 0.14)
baseAngleSpread(P) == (31416 * (660 + P.sizeSpread * 14)) \div 6000
\* angleVariation = (random.next() - 0.5) * baseAngleSpread * 2
angleVariation(s, P) == ((2 * s - Modulus) * baseAngleSpread(P)) \div Modulus
\* droopFactor = (1 - health) * 0.3
droopFactor(P) == (10 - P.health) * 300

RECURSIVE drawBranch(_, _, _, _, _)
RECURSIVE drawChildren(_, _, _, _, _, _)
drawBranch(acc, length, angle, depth, P) ==
    IF drawBranchReturns(depth, P.maxDepth, length)
    THEN [ acc EXCEPT !.calls = @ + 1, !.shape = Digest(@, depth + 1) ]
    ELSE LET swayedAngle == angle + windEffect(depth, P)
             a0 == [ acc EXCEPT !.calls = @ + 1, !.shape = Digest(@, depth + 1),
                                !.segments = @ + 1, !.ink = @ + length,
                                !.angles = @ + swayedAngle,
                                !.glow = @ + (IF depth < 3
                                              THEN P.health * P.glowIntensity
                                              ELSE 0) ]
             a1 == roll(a0)
             a2 == roll(a1)
             a3 == IF depth >= P.maxDepth - 2 /\ shouldDrawLeaf(a2.rng, P)
                   THEN drawLeaves(a2, P)
                   ELSE a2
             a4 == IF depth < 2 THEN a3 ELSE roll(a3)
             branchCount == branchCountFor(depth, P.commitDensity, a4.rng)
         IN  drawChildren(a4, length, swayedAngle, depth, branchCount, P)
\* the loop over the children, n of them left
drawChildren(acc, length, swayedAngle, depth, n, P) ==
    IF n = 0
    THEN acc
    ELSE LET a1 == roll(acc)
             a2 == roll(a1)
             adjustedAngle == swayedAngle + angleVariation(a1.rng, P) + droopFactor(P)
         IN  drawChildren(drawBranch(a2, newLength(length, a2.rng), adjustedAngle,
                                     depth + 1, P),
                          length, swayedAngle, depth, n - 1, P)

\* sin(2 pi t / 6000) and sin(2 pi t / 4000) in 1/1000 at the animation
\* clocks explored (ms).  The phase seed * 0.01 of the wind is left out: it
\* moves the wind of a repository by a constant time.
AnimationTimes == { 0, 1000, 3000, 4500 }
windSine(t) == CASE t = 0 -> 0 [] t = 1000 -> 866 [] t = 3000 -> 0 [] t = 4500 -> -1000
breathSine(t) == CASE t = 0 -> 0 [] t = 1000 -> 1000 [] t = 3000 -> -1000 [] t = 4500 -> 707
\* windOffset = Math.sin(...) * 0.05
windOffsetAt(t) == windSine(t) \div 2
\* breathingFactor = 0.97 + 0.03 * Math.sin(...)
breathingFactorAt(t) == 970 + (30 * breathSine(t)) \div 1000

\* fullName.split(''): the UTF-16 code units of the names rendered here
charCodes ==
    [ fullName \in {"user/abandoned-repo", "facebook/react", "octo/small"} |->
        CASE fullName = "user/abandoned-repo" ->
                << 117, 115, 101, 114, 47, 97, 98, 97, 110, 100, 111, 110, 101,
                   100, 45, 114, 101, 112, 111 >>
          [] fullName = "facebook/react" ->
                << 102, 97, 99, 101, 98, 111, 111, 107, 47, 114, 101, 97, 99, 116 >>
          [] fullName = "octo/small" ->
                << 111, 99, 116, 111, 47, 115, 109, 97, 108, 108 >> ]
RECURSIVE reduce(_, _)
reduce(chars, acc) ==
    IF chars = << >> THEN acc ELSE reduce(Tail(chars), acc + Head(chars))
seedOf(fullName) == reduce(charCodes[fullName], 0)

\* drawTree for data at progress (percent) and animationTime, the wall
\* clock reading day `today` (new Date() in calculateHealth); data.lastPush
\* is a day too.
drawTreeAt(data, progress, today, animationTime) ==
    LET seed == seedOf(data.fullName)
        health == calculateHealth(today - data.lastPush)
        m == treeMetrics(data, progress)
        P == [ maxDepth |-> m.maxDepth.v, health |-> health,
               commitDensity |-> m.commitDensity.v,
               sizeSpread |-> m.sizeSpread.v,
               windOffset |-> windOffsetAt(animationTime),
               glowIntensity |-> breathingFactorAt(animationTime) ]
        random == [ rng |-> seed, nexts |-> 0, calls |-> 0, segments |-> 0,
                    leaves |-> 0, emitted |-> 0, ink |-> 0, angles |-> 0,
                    glow |-> 0, shape |-> 0, emitAt |-> 0 ]
    IN  [ seed |-> seed,
          health |-> health,
          droopFactor |-> (10 - health) * 3,
          aura |-> m.aura,
          roots |-> m.roots,
          tree |-> IF progress > 0
                   THEN drawBranch(random, m.trunkLength.v * 100, -15708, 0, P)
                   ELSE random ]

\* The records rendered: two mock repositories and a fetched one.
RenderRepos ==
    { [ fullName |-> "user/abandoned-repo", lastPush |-> 0, commitCount |-> Num(234),
        size |-> Num(1200), stars |-> Num(45), forks |-> Num(12) ],
      [ fullName |-> "facebook/react", lastPush |-> 0, commitCount |-> Num(15234),
        size |-> Num(45000), stars |-> Num(218000), forks |-> Num(45800) ],
      [ fullName |-> "octo/small", lastPush |-> 0, commitCount |-> Num(100),
        size |-> Num(300), stars |-> Num(3), forks |-> Num(0) ] }
RenderProgresses == { 1, 50, 100 }
\* Wall-clock days of a render
Nows == { 10, 29, 30, 90, 180, 365 }

\* drawRoots.  ceil(10^(k / 2.5)) for k = 0..6:
\* floor(log10(n) * 2.5) >= k  iff  n >= Pow10TwoFifths[k+1]
Pow10TwoFifths == << 1, 3, 7, 16, 40, 100, 252 >>
\* Math.min(8, Math.max(3, Math.floor(Math.log10(forkCount + 1) * 2.5) + 3))
rootCountOf(forkCount) ==
    LET k == Cardinality({ j \in 1..Len(Pow10TwoFifths) :
                             Pow10TwoFifths[j] <= forkCount + 1 }) - 1
        n == k + 3
    IN  IF n < 3 THEN 3 ELSE IF n > 8 THEN 8 ELSE n
\* maxRootLength = 60 + Math.log10(forkCount + 1) * 20, in 1/100 px
maxRootLength(forkCount) == 6000 + 200 * log10Tenths(Num(forkCount + 1)).v
\* rootLength = maxRootLength * (0.6 + random.next() * 0.4)
rootLength(forkCount, s) ==
    (maxRootLength(forkCount) * (600 + (s * 400) \div Modulus)) \div 1000
\* drawRootTendril: if (depth > maxDepth || length < 5) return, maxDepth = 3
enterTendril(depth, length) ==
    [ depth |-> depth, length |-> length, drawn |-> ~(depth > 3 \/ length < 500) ]
\* newLength = length * (0.5 + random.next() * 0.3)
newRootLength(length, s) == (length * (500 + (s * 300) \div Modulus)) \div 1000
\* The fork counts explored: drawTree calls drawRoots only for forks > 10.
RootForks == { 11, 12, 98, 99, 45800, 89000 }

\* Values of densityRoll: the extremes and the two sides of 0.4 and 0.6
DensityRolls == { 0, 93312, 93313, 139968, 139969, Modulus - 1 }

\* Initial lengths: below, at and above the 2 px test, and the trunk
\* lengths of drawTree (100..180 px at full growth).
InitialLengths == { 1, 19999, 20000, 31000, 1000000, 1800000 }
MaxDepths == 4..10
\* The extreme values of random.next()
Rolls == { 0, Modulus - 1 }

\* Metric values: absent, not a number, infinite, negative, zero and some
\* positive ones.
Unusual == { undefined, NaN, Infinity, Num(-5), Num(-1) }
CommitValues == Unusual \cup { Num(c) : c \in (0..MaxMetric) \cup {99, 100, 234, 999, 1000, 15234, 1200000} }
SizeValues == Unusual \cup { Num(0), Num(1200), Num(850000) }
StarValues == { undefined, Num(0), Num(45), Num(101), Num(501), Num(218000) }
ForkValues == { undefined, Num(0), Num(12) }
MetricData ==
    [ commitCount : CommitValues, size : SizeValues, stars : StarValues,
      forks : ForkValues ]
Progresses == { 0, 1, 30, 31, 50, 51, 80, 81, 100 }

\* Seeds: the small ones, the ones around the modulus and some large ones.
Seeds ==
    (0..MaxSeed) \cup { Modulus - 1, Modulus, Modulus + 1, 230885, 1000000,
                        2000000000 }
\* Commit counts: every small one and the ones around each depth threshold.
CommitCounts ==
    (0..MaxCommit)
    \cup { Pow10FiveEighths[k] - d : k \in 6..11, d \in 0..2 }
    \cup { 100000, 1200000, 2000000 }

\* --------------------------------------------------------------- actions
Returned(fn, arg, out) == call' = [ fn |-> fn, arg |-> arg, out |-> out ]
AppUnchanged ==
    UNCHANGED << now, mounted, strictMode, repoData, isAnimating, customRepos,
                 isLoading, error, pending, effectsDue, growthCleanup,
                 loopCleanup, resizeListener, particlesRef, firefliesRef,
                 fallingLeavesRef, animationTimeRef, lastFrameTimeRef,
                 growthProgressRef, lastRenderedProgressRef, animationRef,
                 particleAnimationRef, canvasRef, offscreenCanvasRef,
                 offscreen, rafQueue, storage, fetch, lastFrame, lastOp,
                 switchTime, variant >>

CallCalculateHealth ==
    /\ call = NoCall
    /\ \E elapsed \in 0..(MaxDays * DayParts) :
          Returned("calculateHealth", elapsed, calculateHealthAt(elapsed, DayParts))
    /\ AppUnchanged

CallHealthLabel ==
    /\ call = NoCall
    /\ \E days \in 0..MaxDays :
          Returned("healthLabel", days, healthLabel(calculateHealth(days)))
    /\ AppUnchanged

CallMaxDepth ==
    /\ call = NoCall
    /\ \E c \in CommitCounts : Returned("maxDepth", c, maxDepthOf(Num(c)))
    /\ AppUnchanged

CallTreeMetrics ==
    /\ call = NoCall
    /\ \E data \in MetricData, progress \in Progresses :
          Returned("treeMetrics", [ data |-> data, progress |-> progress ],
                   treeMetrics(data, progress))
    /\ AppUnchanged

CallSeededRandom ==
    /\ call = NoCall
    /\ \E seed \in Seeds : Returned("SeededRandom", seed, NewGenerators(seed))
    /\ AppUnchanged

\* drawTree's call of drawBranch at depth 0
CallDrawBranch ==
    /\ call = NoCall
    /\ \E maxDepth \in MaxDepths, length \in InitialLengths :
          Returned("drawBranch", [ maxDepth |-> maxDepth, length |-> length ],
                   << enter(0, maxDepth, length) >>)
    /\ AppUnchanged

\* The last call on the path drew its segment: it calls a child with
\* depth + 1 and the reduced length.
DrawBranchRecurse ==
    /\ call.fn = "drawBranch"
    /\ LET this == call.out[Len(call.out)]
       IN  /\ this.drawn
           /\ \E s \in Rolls :
                 Returned("drawBranch", call.arg,
                          Append(call.out, enter(this.depth + 1, call.arg.maxDepth,
                                                 newLength(this.length, s))))
    /\ AppUnchanged

\* A frame renders data: drawTree(ctx, w, h, data, progress, particles, time)
CallDrawTree ==
    /\ call = NoCall
    /\ \E data \in RenderRepos, progress \in RenderProgresses, today \in Nows,
          animationTime \in AnimationTimes :
          Returned("drawTree", [ data |-> data, progress |-> progress ],
                   << [ day |-> today, time |-> animationTime,
                        render |-> drawTreeAt(data, progress, today, animationTime) ] >>)
    /\ AppUnchanged

\* The same data at the same progress are rendered once more: on another
\* day with the same animation clock, or on the same day with another
\* animation clock.
DrawTreeAgain ==
    /\ call.fn = "drawTree"
    /\ Len(call.out) = 1
    /\ \E today \in Nows, animationTime \in AnimationTimes :
          /\ today = call.out[1].day \/ animationTime = call.out[1].time
          /\ Returned("drawTree", call.arg,
                      Append(call.out,
                             [ day |-> today, time |-> animationTime,
                               render |-> drawTreeAt(call.arg.data, call.arg.progress,
                                                     today, animationTime) ]))
    /\ AppUnchanged

\* drawRoots(ctx, x, y, forks, ...): rootCount tendrils; the path followed
\* is that of one of them.
CallDrawRoots ==
    /\ call = NoCall
    /\ \E forks \in RootForks, s \in Rolls :
          Returned("drawRoots", [ forks |-> forks ],
                   [ rootCount |-> rootCountOf(forks),
                     path |-> << enterTendril(0, rootLength(forks, s)) >> ])
    /\ AppUnchanged

\* if (depth < maxDepth && random.next() > 0.3): the tendril branches
TendrilRecurse ==
    /\ call.fn = "drawRoots"
    /\ LET this == call.out.path[Len(call.out.path)]
       IN  /\ this.drawn
           /\ this.depth < 3
           /\ \E s \in Rolls :
                 Returned("drawRoots", call.arg,
                          [ call.out EXCEPT !.path =
                              Append(@, enterTendril(this.depth + 1,
                                                     newRootLength(this.length, s))) ])
    /\ AppUnchanged

\* The branch count of one drawn branch
CallBranchCount ==
    /\ call = NoCall
    /\ \E depth \in 0..10, commitDensity \in 0..60, densityRoll \in DensityRolls :
          Returned("branchCount",
                   [ depth |-> depth, commitDensity |-> commitDensity,
                     densityRoll |-> densityRoll ],
                   branchCountFor(depth, commitDensity, densityRoll))
    /\ AppUnchanged

CallNext ==
    /\ call.fn = "SeededRandom"
    /\ \E inst \in {"a", "b"} :
          /\ Len(IF inst = "a" THEN call.out.outA ELSE call.out.outB) < MaxDraws
          /\ Returned("SeededRandom", call.arg, next(call.out, inst))
    /\ AppUnchanged

\* The call under study is over.
CallDone ==
    /\ call # NoCall
    /\ call' = NoCall
    /\ AppUnchanged

RendererInit == Init /\ ~strictMode /\ storage = << >>
RendererNext ==
    \/ CallCalculateHealth
    \/ CallHealthLabel
    \/ CallMaxDepth
    \/ CallTreeMetrics
    \/ CallSeededRandom
    \/ CallNext
    \/ CallDrawBranch
    \/ DrawBranchRecurse
    \/ CallDrawTree
    \/ DrawTreeAgain
    \/ CallDrawRoots
    \/ TendrilRecurse
    \/ CallBranchCount
    \/ CallDone
RendererSpec == RendererInit /\ [][RendererNext]_vars

\* C12 (as stated): maxDepth is non-decreasing in commitCount, lies in
\* [4, 10], and is 4 at commitCount 0 and 10 at commitCount 100000.
DepthMonotoneInRange ==
    call.fn = "maxDepth" =>
        /\ IsNum(call.out) /\ call.out.v \in 4..10
        /\ \A c \in CommitCounts :
              c <= call.arg => maxDepthOf(Num(c)).v <= call.out.v
        /\ call.arg = 0 => call.out.v = 4
C12_DepthMapping ==
    /\ DepthMonotoneInRange
    /\ (call.fn = "maxDepth" /\ call.arg = 100000) => call.out.v = 10
\* C12 (amended): maxDepth is non-decreasing in commitCount, lies in [4, 10],
\* and is 4 at commitCount 0, 8 at commitCount 100000 and 10 from
\* commitCount 1778279 on.
C12_DepthMappingAmended ==
    /\ DepthMonotoneInRange
    /\ (call.fn = "maxDepth" /\ call.arg = 100000) => call.out.v = 8
    /\ (call.fn = "maxDepth" /\ call.arg >= 1778279) => call.out.v = 10
    /\ (call.fn = "maxDepth" /\ call.arg < 1778279) => call.out.v < 10
C12_Witness ==
    call.fn = "maxDepth" /\ call.arg = 100000 /\ call.out = Num(8)

\* C13: calculateHealth is the step function of the days since the last
\* push, whole or fractional: 1.0 below 30 days, 0.8 from 30 to below 90,
\* 0.6 from 90 to below 180, 0.4 from 180 to below 365, 0.2 from 365 on.
C13_HealthSteps ==
    call.fn = "calculateHealth" =>
        LET e == call.arg
            tier == IF e < 30 * DayParts THEN 10
                    ELSE IF e < 90 * DayParts THEN 8
                    ELSE IF e < 180 * DayParts THEN 6
                    ELSE IF e < 365 * DayParts THEN 4
                    ELSE 2
        IN  /\ call.out \in {10, 8, 6, 4, 2}
            /\ call.out = tier
            /\ e \in {30 * DayParts, 90 * DayParts, 180 * DayParts, 365 * DayParts}
                  => call.out < calculateHealthAt(e - 1, DayParts)
C13_Witness ==
    call.fn = "calculateHealth" /\ call.arg = 90 * DayParts /\ call.out = 6

\* C14: the health label names the tier of the health function: Thriving
\* under 30 days, Active from 30 to 89 days, Dormant from 180 to 364 days,
\* Withered from 365 days on.
C14_HealthLabelTiers ==
    call.fn = "healthLabel" =>
        /\ call.arg < 30 => call.out = "Thriving"
        /\ call.arg \in 30..89 => call.out = "Active"
        /\ call.arg \in 180..364 => call.out = "Dormant"
        /\ call.arg >= 365 => call.out = "Withered"

\* C11: a started growth process keeps growthProgress in [0, 1] and never
\* lets it decrease while it runs, reaches exactly 1 once 2000 ms have
\* elapsed, and schedules no growth callback from then on.
GrowthCallbacks == SelectSeq(rafQueue, LAMBDA c : c.kind = "animate")
GrowthRunContinues ==
    \E c \in InSeq(GrowthCallbacks) :
        \E c2 \in InSeq(GrowthCallbacks') : c2.startTime = c.startTime
C11_GrowthRun ==
    /\ [](growthProgressRef >= 0 /\ growthProgressRef <= One)
    /\ [](\A c \in InSeq(GrowthCallbacks) : now - c.startTime < D)
    /\ [][GrowthRunContinues => growthProgressRef' >= growthProgressRef]_vars

\* C18: after each next() the generator state is an integer in
\* [0, 233279] equal to (previous * 9301 + 49297) mod 233280, the value
\* returned, state / 233280, is in [0, 1), and two instances created with
\* the same seed return identical values at every position.
LcgStep(prev) ==
    LET s == prev % Modulus
    IN  (((((s * 71) % Modulus) * 131) % Modulus) + 49297) % Modulus
StatesFollow(seed, out) ==
    \A i \in 1..Len(out) :
        /\ out[i] \in 0..(Modulus - 1)
        /\ out[i] = LcgStep(IF i = 1 THEN seed ELSE out[i - 1])
C18_SeededRandom ==
    call.fn = "SeededRandom" =>
        /\ StatesFollow(call.arg, call.out.outA)
        /\ StatesFollow(call.arg, call.out.outB)
        /\ \A i \in 1..Min(Len(call.out.outA), Len(call.out.outB)) :
              call.out.outA[i] = call.out.outB[i]
C18_Witness ==
    /\ call.fn = "SeededRandom"
    /\ call.arg = 1
    /\ call.out.outA = << 58598, 127215, 79852 >>
    /\ call.out.outB = call.out.outA

\* C16: for a record in which stars and forks are absent, no frame, at any
\* growthProgress, draws the aura, calls drawRoots or spawns a firefly.
C16_AbsentStarsForks ==
    (/\ call.fn = "treeMetrics"
     /\ call.arg.data.stars = undefined
     /\ call.arg.data.forks = undefined)
        => ~call.out.aura /\ ~call.out.roots /\ ~call.out.firefly
C16_Witness ==
    /\ call.fn = "treeMetrics"
    /\ call.arg.data.stars = undefined
    /\ call.arg.data.forks = undefined
    /\ call.arg.progress = 100
    /\ ~call.out.aura /\ ~call.out.roots /\ ~call.out.firefly

\* C19: for every commitCount and size handed to drawTree, also negative,
\* missing and non-finite ones, maxDepth is an integer in [4, 10] and
\* trunkLength, commitDensity and sizeSpread are finite and within their
\* bounds.
C19_MetricsFinite ==
    call.fn = "treeMetrics" =>
        /\ IsNum(call.out.maxDepth) /\ call.out.maxDepth.v \in 4..10
        /\ IsNum(call.out.trunkLength) /\ call.out.trunkLength.v \in 0..18000
        /\ IsNum(call.out.commitDensity) /\ call.out.commitDensity.v \in 0..60
        /\ IsNum(call.out.sizeSpread) /\ call.out.sizeSpread.v \in 0..60

\* C20: for every commitCount >= 0 the commitDensity handed to drawBranch
\* is clamp(log10(commitCount + 1) / 6, 0, 1): 0 at commitCount 0 and
\* non-decreasing in commitCount.
DensityFormula(c) == mathMin(Num(60), mathMax(Num(0), log10Tenths(Num(c + 1))))
C20_CommitDensity ==
    (call.fn = "treeMetrics" /\ IsNum(call.arg.data.commitCount)
                             /\ call.arg.data.commitCount.v >= 0)
        => LET c == call.arg.data.commitCount.v
           IN  /\ call.out.commitDensity = DensityFormula(c)
               /\ c = 0 => call.out.commitDensity = Num(0)
               /\ \A d \in CommitValues :
                     (IsNum(d) /\ d.v >= 0 /\ d.v <= c)
                        => ~jsLess(call.out.commitDensity, commitDensityOf([commitCount |-> d]))

\* C15: drawBranch terminates for every maxDepth in 4..10 and every positive
\* initial length: on every path of the recursion the depth grows by one
\* per call and never exceeds maxDepth + 1, so a path has at most
\* maxDepth + 2 calls; a call draws a segment only with depth <= maxDepth
\* and length >= 2 px; a call that draws has 2 to 4 children, so the
\* number of calls is finite.
C15_DrawBranchTerminates ==
    call.fn = "drawBranch" =>
        /\ Len(call.out) <= call.arg.maxDepth + 2
        /\ \A i \in 1..Len(call.out) :
              /\ call.out[i].depth = i - 1
              /\ call.out[i].depth <= call.arg.maxDepth + 1
              /\ call.out[i].drawn =>
                    /\ call.out[i].depth <= call.arg.maxDepth
                    /\ call.out[i].length >= 20000
              /\ i < Len(call.out) =>
                    /\ call.out[i].drawn
                    /\ call.out[i + 1].length < call.out[i].length
              /\ \A commitDensity \in 0..60, densityRoll \in Rolls :
                    branchCountFor(call.out[i].depth, commitDensity, densityRoll) \in 2..4
C15_Witness ==
    /\ call.fn = "drawBranch"
    /\ call.arg = [ maxDepth |-> 10, length |-> 1800000 ]
    /\ Len(call.out) = 12
    /\ call.out[11].drawn
    /\ ~call.out[12].drawn /\ call.out[12].depth = 11 /\ call.out[12].length >= 20000

\* C17: the same repository always yields the same tree: two renders of one
\* record at the same growth progress and animation clock, on whatever
\* days, have the same seed (the character-code sum of fullName), make the
\* same sequence of random.next() calls and draw the same branches (the
\* same segments, of the same lengths, the children at the same angles).
SameSeed(r1, r2) == r1.seed = r2.seed /\ r1.seed = seedOf(call.arg.data.fullName)
SameSequence(r1, r2) == r1.tree.nexts = r2.tree.nexts /\ r1.tree.rng = r2.tree.rng
SameBranches(r1, r2) ==
    /\ r1.tree.segments = r2.tree.segments
    /\ r1.tree.ink = r2.tree.ink
    /\ r1.tree.angles = r2.tree.angles
    /\ r1.tree.segments > 1 => r1.droopFactor = r2.droopFactor
C17_SameTreeAtAnyDate ==
    (call.fn = "drawTree" /\ Len(call.out) = 2 /\ call.out[1].time = call.out[2].time)
        => /\ SameSeed(call.out[1].render, call.out[2].render)
           /\ SameSequence(call.out[1].render, call.out[2].render)
           /\ SameBranches(call.out[1].render, call.out[2].render)

\* C21: when handleLoadCustomRepo fails (empty input, unparsable URL, HTTP
\* 404, HTTP 403 or any other fetch failure) a non-empty error message is
\* set, isLoading ends false, and the active repository, the custom-repo
\* list, the stored customRepos entry, the three particle collections and
\* growthProgress are as they were before: in every state, whatever failure
\* the handler can meet there leaves them alone.
FailureOutcomes ==
    (IF mounted = "mounted" /\ ~isLoading /\ fetch.st = Idle
     THEN { handleLoadCustomRepo(St, input) : input \in {"", "invalid"} }
     ELSE {})
    \cup (IF fetch.st = "inflight"
          THEN { customRepoFailed(St, message) : message \in FetchErrors }
          ELSE {})
C21_FailedLoadChangesNothing ==
    \A r \in FailureOutcomes :
        /\ Latest(r.pending.error, r.error) # ""
        /\ Latest(r.pending.isLoading, r.isLoading) = FALSE
        /\ r.fetch.st = Idle
        /\ ActiveRepo(r) = ActiveRepo(St)
        /\ Latest(r.pending.customRepos, r.customRepos)
              = Latest(pending.customRepos, customRepos)
        /\ r.storage = storage
        /\ r.particlesRef = particlesRef
        /\ r.firefliesRef = firefliesRef
        /\ r.fallingLeavesRef = fallingLeavesRef
        /\ r.growthProgressRef = growthProgressRef
C21_Witness ==
    /\ lastOp = "customFail"
    /\ pending.error = << "API rate limit exceeded. Please try again later." >>
    /\ pending.isLoading = << FALSE >>
    /\ fetch = NoFetch
    /\ particlesRef # << >>
    /\ firefliesRef # << >>
    /\ growthProgressRef > 0
    /\ customRepos # << >>

\* C24: the animation clock never decreases between consecutive frames of
\* one perpetual loop, and it is 0 when the first frame of every newly
\* started perpetual loop begins: the tree of that frame is drawn with the
\* clock of the new loop, not with the previous repository's.
C24_ClockMonotoneAndReset ==
    /\ [](FrameRan /\ lastFrame.first
            => /\ lastFrame.clock = 0
               /\ lastFrame.tree.time = 0
               /\ animationTimeRef = 0)
    /\ [](FrameRan /\ ~lastFrame.first
            => /\ lastFrame.clock >= 0
               /\ animationTimeRef >= lastFrame.clock
               /\ lastFrame.tree.time = animationTimeRef)
    /\ [][(FrameRan' /\ ~lastFrame'.first)
            => /\ lastFrame'.clock = animationTimeRef
               /\ animationTimeRef' >= animationTimeRef]_vars
C24_Witness ==
    /\ strictMode
    /\ lastOp = "loadRepo"
    /\ FrameRan /\ lastFrame.first
    /\ lastFrame.repo = "user/abandoned-repo"
    /\ now = 2 * FrameStep
    /\ animationTimeRef = 0
    /\ lastFrame.tree.time = 0

\* The custom-repository list as the user has last set it, and the names in
\* the stored customRepos entry.
CustomList == Latest(pending.customRepos, customRepos)
StoredList == IF storage = << >> THEN << >> ELSE storage[1]
SavedEarlier == { r.fullName : r \in StoredRepos }

\* C29: after the Clear button has emptied the custom-repository list and
\* its stored copy, no repository that was cleared reappears in the list or
\* in storage, also when a fetch that started before the Clear completes
\* after it.  (The session starts with a stored entry, so the entry is
\* empty only after a Clear; the repositories saved earlier were cleared
\* then, and no fetch returns them.)
C29_ClearedStayCleared ==
    [][(mounted = "mounted" /\ storage = << >>)
          => /\ InSeq(StoredList') \cap SavedEarlier = {}
             /\ InSeq(CustomList') \cap SavedEarlier = {}]_vars

\* C30: after any sequence of successful custom loads, repeated loads of
\* the same repository and clears, the custom-repository list never holds
\* two entries with the same fullName, and after each successful add the
\* stored customRepos entry equals the in-memory list.
NoDuplicates(q) == \A i, j \in 1..Len(q) : q[i] = q[j] => i = j
C30_ListWithoutDuplicates ==
    /\ NoDuplicates(customRepos)
    /\ NoDuplicates(CustomList)
    /\ NoDuplicates(StoredList)
    /\ lastOp = "customAdd" => storage = << CustomList >>
C30_Witness ==
    /\ lastOp = "customAdd"
    /\ customRepos = << "octo/old" >>
    /\ CustomList = << "octo/old", "octo/small" >>
    /\ storage = << CustomList >>

\* drawRoots as C26 states it: rootCount is 3..8, 8 for forks = 45800 and
\* from 99 forks on, 5 for 11 forks; every top-level tendril is drawn; a
\* tendril's recursion goes one level per call, no deeper than depth 3 and
\* never draws a segment shorter than 5 px.
RootsAsStated ==
    call.fn = "drawRoots" =>
        /\ call.out.rootCount \in 3..8
        /\ call.arg.forks = 45800 => call.out.rootCount = 8
        /\ call.arg.forks >= 99 <=> call.out.rootCount = 8
        /\ call.arg.forks \in {11, 12} => call.out.rootCount = 5
        /\ call.out.path[1].drawn
        /\ \A i \in 1..Len(call.out.path) :
              /\ call.out.path[i].depth = i - 1
              /\ call.out.path[i].depth <= 3
              /\ call.out.path[i].drawn => call.out.path[i].length >= 500

\* C26: drawRoots is called in a frame only if the active repository has
\* forks > 10 (and it then draws rootCount = clamp(floor(log10(forks + 1)
\* * 2.5) + 3, 3, 8) tendrils that stop at depth 3 or below 5 px).
C26_RootsOnlyForForkedActiveRepo ==
    (FrameRan /\ lastFrame.roots) => Repo(lastFrame.active).forks > 10

C28_ClockLeavesStructureAlone ==
    (call.fn = "drawTree" /\ Len(call.out) = 2 /\ call.out[1].day = call.out[2].day)
        => LET t1 == call.out[1].render.tree
               t2 == call.out[2].render.tree
           IN  /\ t1.nexts = t2.nexts /\ t1.rng = t2.rng
               /\ t1.calls = t2.calls /\ t1.segments = t2.segments
               /\ t1.shape = t2.shape
               /\ t1.ink = t2.ink
               /\ t1.leaves = t2.leaves
               /\ t1.emitted = t2.emitted /\ t1.emitAt = t2.emitAt
C28_Witness ==
    /\ call.fn = "drawTree" /\ Len(call.out) = 2
    /\ call.out[1].day = call.out[2].day
    /\ call.out[1].render.tree.angles # call.out[2].render.tree.angles
    /\ call.out[1].render.tree.glow # call.out[2].render.tree.glow
    /\ call.out[1].render.tree.emitted > 0
    /\ call.out[1].render.tree.segments > 100

\* C23: at every composite the offscreen buffer holds the tree rendered for
\* the currently active repository at the current growthProgress: never the
\* geometry of an older progress value or of another repository.
C23_CompositeShowsActiveTree ==
    (FrameRan /\ "renderFrame" \in InSeq(lastFrame.steps))
        => /\ lastFrame.tree.repo = lastFrame.active
           /\ lastFrame.tree.progress = lastFrame.progress

\* C27: once the growth animation has finished, the cached tree that is
\* shown is the fully grown one: a frame of the active repository's loop
\* that runs with growthProgress = 1 composites the tree drawn at
\* progress = 1.
C27_GrownTreeShown ==
    (/\ FrameRan /\ "renderFrame" \in InSeq(lastFrame.steps)
     /\ lastFrame.repo = lastFrame.active
     /\ lastFrame.progress = One)
        => /\ lastFrame.tree.repo = lastFrame.repo
           /\ lastFrame.tree.progress = One

\* C22: after a window resize the next frame of the perpetual loop redraws
\* the tree into the offscreen buffer before it composites, whatever
\* growthProgress is: a frame that finds the buffer resized and not redrawn
\* calls drawTree for its repository at the current progress and composites
\* that tree.
C22_ResizeForcesRedraw ==
    (FrameRan /\ lastFrame.invalidated)
        => /\ "drawTree" \in InSeq(lastFrame.steps)
           /\ "renderFrame" \in InSeq(lastFrame.steps)
           /\ lastFrame.tree.repo = lastFrame.repo
           /\ lastFrame.tree.progress = lastFrame.progress
\* a frame after the loop's first one, growth finished, the buffer resized
C22_Witness ==
    /\ FrameRan /\ lastFrame.invalidated /\ ~lastFrame.first
    /\ lastFrame.progress = One /\ ~isAnimating
    /\ lastFrame.tree.progress = One

====
